---- MODULE Spec2Model ----
(***************************************************************************)
(* A model of the LSM tree of src/src/lib.rs: the memtable, the data       *)
(* directory of .sst files, the SSTableManager's catalog and id counter,   *)
(* and the operations new, put, get, delete, flush_memtable, compact and   *)
(* force_compact.  Strings are sequences of characters, a file is the      *)
(* sequence of characters written to it, and a line is read back by        *)
(* splitting as the code splits.                                           *)
(***************************************************************************)
EXTENDS Integers, Sequences, FiniteSets, TLC

\* ------------------------------------------------------------------ bounds
\* Puts and deletes issued over the whole run (all engine instances).
MaxWrites == 3
\* A memtable limit small enough for a put to reach it with several entries.
SmallLimit == 2

\* ------------------------------------------------------- program constants
DefaultMemtableLimit == 10
DefaultCompactionTrigger == 8
TestMemtableLimit == 1
TestCompactionTrigger == 3

\* ---------------------------------------------------------------- strings
TOMBSTONE_MARKER == "tomb"
Delimiter == ":"
Newline == "nl"

Keys == {<<"a">>, <<"b">>}
Values == {<<"x">>, <<"y">>}

\* The code point of a character (Rust compares strings by their UTF-8 bytes,
\* which orders these characters as their code points do).
CodePoint(c) ==
    CASE c = Newline -> 10
      [] c = Delimiter -> 58
      [] c = "a" -> 97
      [] c = "b" -> 98
      [] c = "c" -> 99
      [] c = "x" -> 120
      [] c = "y" -> 121
      [] c = TOMBSTONE_MARKER -> 129702

RECURSIVE StrLess(_, _)
StrLess(s, t) ==
    IF t = <<>> THEN FALSE
    ELSE IF s = <<>> THEN TRUE
    ELSE IF s[1] = t[1] THEN StrLess(Tail(s), Tail(t))
    ELSE CodePoint(s[1]) < CodePoint(t[1])

\* Option<String>: None is the empty sequence, Some(v) the one-element one.
None == <<>>
Some(v) == <<v>>

\* str::split: the parts between the separators, at least one part.
RECURSIVE Split(_, _)
Split(s, c) ==
    IF \E i \in 1..Len(s) : s[i] = c
    THEN LET i == CHOOSE n \in 1..Len(s) : s[n] = c /\ \A j \in 1..(n - 1) : s[j] # c
         IN  <<SubSeq(s, 1, i - 1)>> \o Split(SubSeq(s, i + 1, Len(s)), c)
    ELSE <<s>>

\* BufRead::lines: the newline-terminated lines, and a last unterminated one.
lines(content) ==
    LET parts == Split(content, Newline)
    IN  IF parts[Len(parts)] = <<>> THEN SubSeq(parts, 1, Len(parts) - 1) ELSE parts

\* read_kv_line: the first two ':'-separated fields; unwrap panics without a second.
read_kv_line(l) ==
    LET kv == Split(l, Delimiter)
    IN  IF Len(kv) < 2
        THEN [ok |-> FALSE, k |-> kv[1], v |-> <<>>]
        ELSE [ok |-> TRUE, k |-> kv[1], v |-> kv[2]]

\* writeln!("{}:{}", k, v)
FormatLine(k, v) == k \o <<Delimiter>> \o v \o <<Newline>>

\* ------------------------------------------------------------------ state
VARIABLES
    memtable,            \* LSMTree.memtable: key -> Option<String>
    memtable_limit,      \* LSMTree.memtable_limit
    next_sstable_id,     \* SSTableManager.next_sstable_id
    sstables,            \* SSTableManager.sstables, oldest first
    compaction_trigger,  \* SSTableManager.compaction_trigger
    data,                \* the data directory: id -> content of <id>.sst
    panicked,            \* the engine instance ended in a panic
    writes,              \* puts and deletes issued so far
    lastOp,              \* the operation that produced this state
    latest,              \* per key, the last write of this instance
    recovered,           \* the catalog as recover() installed it
    assigned,            \* the ids this instance registered, in order
    dropped,             \* what the previous instance answered when dropped
    flushing             \* where a flush_memtable call in progress stands

vars == <<memtable, memtable_limit, next_sstable_id, sstables, compaction_trigger,
          data, panicked, writes, lastOp, latest, recovered, assigned, dropped,
          flushing>>

EmptyMap == [k \in {} |-> None]

\* The LSMTree value with its SSTableManager and the directory it works on.
Engine ==
    [memtable |-> memtable, memtable_limit |-> memtable_limit,
     next_sstable_id |-> next_sstable_id, sstables |-> sstables,
     compaction_trigger |-> compaction_trigger, data |-> data]

Install(e) ==
    /\ memtable' = e.memtable
    /\ memtable_limit' = e.memtable_limit
    /\ next_sstable_id' = e.next_sstable_id
    /\ sstables' = e.sstables
    /\ compaction_trigger' = e.compaction_trigger
    /\ data' = e.data

\* ------------------------------------------------------------- read path
\* SSTableManager::get_sstable over the lines of one file: the first line whose
\* key matches decides; a tombstone and a missing key both give None.
RECURSIVE ScanLines(_, _)
ScanLines(ls, key) ==
    IF ls = <<>> THEN [ok |-> TRUE, value |-> None]
    ELSE LET kv == read_kv_line(ls[1])
         IN  IF ~kv.ok THEN [ok |-> FALSE, value |-> None]
             ELSE IF kv.k = key
             THEN IF kv.v = <<TOMBSTONE_MARKER>>
                  THEN [ok |-> TRUE, value |-> None]
                  ELSE [ok |-> TRUE, value |-> Some(kv.v)]
             ELSE ScanLines(Tail(ls), key)

get_sstable(fs, sst_file_id, key) ==
    IF sst_file_id \notin DOMAIN fs
    THEN [ok |-> FALSE, value |-> None]
    ELSE ScanLines(lines(fs[sst_file_id]), key)

\* The loop of LSMTree::get over sstables.iter().rev(), from position i down.
RECURSIVE ScanSegments(_, _, _)
ScanSegments(i, k, consulted) ==
    IF i = 0 THEN [ok |-> TRUE, value |-> None, consulted |-> consulted]
    ELSE LET r == get_sstable(data, sstables[i], k)
             seen == Append(consulted, sstables[i])
         IN  IF ~r.ok THEN [ok |-> FALSE, value |-> None, consulted |-> seen]
             ELSE IF r.value # None
             THEN [ok |-> TRUE, value |-> r.value, consulted |-> seen]
             ELSE ScanSegments(i - 1, k, seen)

\* get with a memtable tombstone treated as a missing key.
get_tombstone_falls_through(k) ==
    IF k \in DOMAIN memtable /\ memtable[k] # None
    THEN [ok |-> TRUE, value |-> memtable[k], consulted |-> <<>>]
    ELSE ScanSegments(Len(sstables), k, <<>>)

\* LSMTree::get
get(k) ==
    IF k \in DOMAIN memtable
    THEN [ok |-> TRUE, value |-> memtable[k], consulted |-> <<>>]
    ELSE ScanSegments(Len(sstables), k, <<>>)

\* ------------------------------------------------------------ write path
Insert(m, k, v) == [j \in DOMAIN m \cup {k} |-> IF j = k THEN v ELSE m[j]]

\* The keys of a BTreeMap in iteration order.
RECURSIVE Ascending(_)
Ascending(S) ==
    IF S = {} THEN <<>>
    ELSE LET least == CHOOSE s \in S : \A t \in S \ {s} : StrLess(s, t)
         IN  <<least>> \o Ascending(S \ {least})

\* new_sstable without the increment of the counter.
new_sstable_same_id(e) ==
    LET id == e.next_sstable_id
    IN  [e |-> [e EXCEPT !.data = [i \in DOMAIN e.data \cup {id} |->
                                      IF i \in DOMAIN e.data THEN e.data[i] ELSE <<>>]],
         sst_id |-> id]

\* SSTableManager::new_sstable: the counter moves first; the file is opened with
\* create + append, so a file of that name keeps its content.
new_sstable(e) ==
    LET id == e.next_sstable_id + 1
    IN  [e |-> [e EXCEPT !.next_sstable_id = id,
                         !.data = [i \in DOMAIN e.data \cup {id} |->
                                      IF i \in DOMAIN e.data THEN e.data[i] ELSE <<>>]],
         sst_id |-> id]

add_sstable(e, id) == [e EXCEPT !.sstables = Append(@, id)]

\* The lines flush_memtable writes for the memtable m, in key order.
RECURSIVE WriteAll(_, _)
WriteAll(m, ks) ==
    IF ks = <<>> THEN <<>>
    ELSE (IF m[ks[1]] = None
          THEN FormatLine(ks[1], <<TOMBSTONE_MARKER>>)
          ELSE FormatLine(ks[1], m[ks[1]][1]))
         \o WriteAll(m, Tail(ks))

\* flush_memtable without the early return on an empty memtable.
flush_memtable_always(e) ==
    LET n == new_sstable(e)
        written == [n.e EXCEPT
            !.data[n.sst_id] = @ \o WriteAll(e.memtable, Ascending(DOMAIN e.memtable)),
            !.memtable = EmptyMap]
    IN  add_sstable(written, n.sst_id)

\* LSMTree::flush_memtable
flush_memtable(e) ==
    IF DOMAIN e.memtable = {} THEN e
    ELSE LET n == new_sstable(e)
             written == [n.e EXCEPT
                 !.data[n.sst_id] = @ \o WriteAll(e.memtable, Ascending(DOMAIN e.memtable)),
                 !.memtable = EmptyMap]
         IN  add_sstable(written, n.sst_id)

put(e, k, v) ==
    LET e1 == [e EXCEPT !.memtable = Insert(@, k, Some(v))]
    IN  IF Cardinality(DOMAIN e1.memtable) = e1.memtable_limit
        THEN flush_memtable(e1)
        ELSE e1

delete(e, k) == [e EXCEPT !.memtable = Insert(@, k, None)]

\* ------------------------------------------------------------ compaction
\* SSTableManager::should_compact is todo!(): it panics when called.
should_compact(e) == [ok |-> FALSE, value |-> FALSE]

\* compact_sstables bailing out only on an empty catalog.
compact_sstables_below_one(e) ==
    IF Len(e.sstables) < 1 THEN [ok |-> TRUE, e |-> e]
    ELSE [ok |-> FALSE, e |-> e]

\* SSTableManager::compact_sstables: returns early below two sstables; otherwise it
\* reads the first line of the two oldest files and reaches todo!() in the first
\* turn of its loop, before anything is written, removed or popped.
compact_sstables(e) ==
    IF Len(e.sstables) < 2 THEN [ok |-> TRUE, e |-> e]
    ELSE [ok |-> FALSE, e |-> e]

\* LSMTree::compact
compact(e) ==
    LET s == should_compact(e)
    IN  IF ~s.ok THEN [ok |-> FALSE, e |-> e]
        ELSE IF s.value THEN compact_sstables(e)
        ELSE [ok |-> TRUE, e |-> e]

\* LSMTree::force_compact
force_compact(e) == compact_sstables(e)

\* --------------------------------------------------------------- recovery
\* SSTableManager::recover: the ids of the .sst files of the directory, ascending.
RECURSIVE SortIds(_)
SortIds(S) ==
    IF S = {} THEN <<>>
    ELSE LET least == CHOOSE s \in S : \A t \in S : s <= t
         IN  <<least>> \o SortIds(S \ {least})

recover(fs) == SortIds(DOMAIN fs)

\* LSMTree::new on the directory fs (SSTableManager::new, then recover).
new(fs) ==
    [memtable |-> EmptyMap, memtable_limit |-> DefaultMemtableLimit,
     next_sstable_id |-> 0, sstables |-> recover(fs),
     compaction_trigger |-> DefaultCompactionTrigger, data |-> fs]

\* ---------------------------------------------------------------- history
NoWrite == [op |-> "none", v |-> <<>>, flushed |-> FALSE]
NoDrop == [clean |-> FALSE, answers |-> [k \in Keys |-> None]]
\* No flush_memtable call is in progress.
Idle == [pc |-> "idle", sst_id |-> 0, pending |-> <<>>, caller |-> "none"]

\* The ids an operation appended to the catalog.
Registered(e) == SubSeq(e.sstables, Len(sstables) + 1, Len(e.sstables))

\* The history of the last write records the keys the claims read back.
Note(l, k, w) == IF k \in DOMAIN l THEN [l EXCEPT ![k] = w] ELSE l

\* After a flush every write recorded so far sits in a segment.
MarkFlushed(l, e) ==
    IF Registered(e) = <<>> THEN l
    ELSE [k \in Keys |-> IF l[k].op = "none" THEN l[k] ELSE [l[k] EXCEPT !.flushed = TRUE]]

\* ---------------------------------------------------------------- actions
\* The first engine instance, constructed on an empty data directory.
Init ==
    LET e == new([i \in {} |-> <<>>])
    IN  /\ memtable = e.memtable
        /\ memtable_limit = e.memtable_limit
        /\ next_sstable_id = e.next_sstable_id
        /\ sstables = e.sstables
        /\ compaction_trigger = e.compaction_trigger
        /\ data = e.data
        /\ panicked = FALSE
        /\ writes = 0
        /\ lastOp = "new"
        /\ latest = [k \in Keys |-> NoWrite]
        /\ recovered = e.sstables
        /\ assigned = <<>>
        /\ dropped = NoDrop
        /\ flushing = Idle

\* drop(lsmtree); LSMTree::new(): the memtable is gone, the directory stays.
New ==
    /\ Install(new(data))
    /\ UNCHANGED flushing
    /\ panicked' = FALSE
    /\ lastOp' = "new"
    /\ latest' = [k \in Keys |-> NoWrite]
    /\ recovered' = recover(data)
    /\ assigned' = <<>>
    /\ dropped' = IF panicked THEN NoDrop
                  ELSE [clean |-> DOMAIN memtable = {},
                        answers |-> [k \in Keys |-> get(k).value]]
    /\ UNCHANGED writes

\* lsmtree.memtable_limit = l; lsmtree.sstable_mgr.compaction_trigger = t,
\* as the tests set them on a fresh instance.
Configure(l, t) ==
    /\ ~panicked
    /\ UNCHANGED flushing
    /\ lastOp = "new"
    /\ memtable_limit' = l
    /\ compaction_trigger' = t
    /\ lastOp' = "configure"
    /\ dropped' = NoDrop
    /\ UNCHANGED <<memtable, next_sstable_id, sstables, data, panicked, writes,
                   latest, recovered, assigned>>

Put(k, v) ==
    /\ ~panicked
    /\ UNCHANGED flushing
    /\ writes < MaxWrites
    /\ LET e == put(Engine, k, v)
       IN  /\ Install(e)
           /\ latest' = MarkFlushed(
                  Note(latest, k, [op |-> "put", v |-> v, flushed |-> FALSE]), e)
           /\ assigned' = assigned \o Registered(e)
    /\ writes' = writes + 1
    /\ lastOp' = "put"
    /\ dropped' = NoDrop
    /\ UNCHANGED <<panicked, recovered>>

Delete(k) ==
    /\ ~panicked
    /\ UNCHANGED flushing
    /\ writes < MaxWrites
    /\ Install(delete(Engine, k))
    /\ latest' = Note(latest, k, [op |-> "delete", v |-> <<>>, flushed |-> FALSE])
    /\ writes' = writes + 1
    /\ lastOp' = "delete"
    /\ dropped' = NoDrop
    /\ UNCHANGED <<panicked, recovered, assigned>>

Flush ==
    /\ ~panicked
    /\ UNCHANGED flushing
    /\ LET e == flush_memtable(Engine)
       IN  /\ Install(e)
           /\ latest' = MarkFlushed(latest, e)
           /\ assigned' = assigned \o Registered(e)
    /\ lastOp' = "flush"
    /\ dropped' = NoDrop
    /\ UNCHANGED <<panicked, writes, recovered>>

Compact ==
    /\ ~panicked
    /\ UNCHANGED flushing
    /\ LET r == compact(Engine)
       IN  /\ Install(r.e)
           /\ panicked' = ~r.ok
    /\ lastOp' = "compact"
    /\ dropped' = NoDrop
    /\ UNCHANGED <<writes, latest, recovered, assigned>>

ForceCompact ==
    /\ ~panicked
    /\ UNCHANGED flushing
    /\ LET r == force_compact(Engine)
       IN  /\ Install(r.e)
           /\ panicked' = ~r.ok
    /\ lastOp' = "force_compact"
    /\ dropped' = NoDrop
    /\ UNCHANGED <<writes, latest, recovered, assigned>>

Next ==
    \/ New
    \/ \E l \in {TestMemtableLimit, SmallLimit} :
           Configure(l, TestCompactionTrigger)
    \/ \E k \in Keys : \E v \in Values : Put(k, v)
    \/ \E k \in Keys : Delete(k)
    \/ Flush
    \/ Compact
    \/ ForceCompact

Spec == Init /\ [][Next]_vars

TypeOK ==
    /\ DOMAIN memtable \subseteq Keys
    /\ \A k \in DOMAIN memtable : memtable[k] = None \/ memtable[k][1] \in Values
    /\ next_sstable_id \in 0..MaxWrites
    /\ \A i \in 1..Len(sstables) : sstables[i] \in DOMAIN data
    /\ \A k \in Keys : get(k).ok
    /\ writes \in 0..MaxWrites

\* ------------------------------------------------- flush_memtable, by steps
\* The same operations with flush_memtable taken statement by statement:
\* new_sstable, one write_all per memtable entry, sync_data, memtable.clear(),
\* add_sstable.  The other operations run between flushes only.

\* flush_memtable up to the return of new_sstable; an empty memtable returns.
BeginFlush(e, caller) ==
    IF DOMAIN e.memtable = {}
    THEN /\ Install(e)
         /\ flushing' = Idle
    ELSE LET n == new_sstable(e)
         IN  /\ Install(n.e)
             /\ flushing' = [pc |-> "writing", sst_id |-> n.sst_id,
                             pending |-> Ascending(DOMAIN e.memtable),
                             caller |-> caller]

StepNew == flushing.pc = "idle" /\ New
StepConfigure(l, t) == flushing.pc = "idle" /\ Configure(l, t)
StepDelete(k) == flushing.pc = "idle" /\ Delete(k)
StepCompact == flushing.pc = "idle" /\ Compact
StepForceCompact == flushing.pc = "idle" /\ ForceCompact

\* put: the insert, and the call of flush_memtable when the limit is met.
StepPut(k, v) ==
    /\ flushing.pc = "idle"
    /\ ~panicked
    /\ writes < MaxWrites
    /\ LET e1 == [Engine EXCEPT !.memtable = Insert(@, k, Some(v))]
       IN  IF Cardinality(DOMAIN e1.memtable) = e1.memtable_limit
           THEN BeginFlush(e1, "put")
           ELSE Install(e1) /\ flushing' = Idle
    /\ latest' = Note(latest, k, [op |-> "put", v |-> v, flushed |-> FALSE])
    /\ writes' = writes + 1
    /\ lastOp' = "put"
    /\ dropped' = NoDrop
    /\ UNCHANGED <<panicked, recovered, assigned>>

\* An explicit call of flush_memtable.
StepFlush ==
    /\ flushing.pc = "idle"
    /\ ~panicked
    /\ BeginFlush(Engine, "flush")
    /\ lastOp' = "flush"
    /\ dropped' = NoDrop
    /\ UNCHANGED <<panicked, writes, latest, recovered, assigned>>

\* One turn of the loop: the line of the next entry goes to the file.
FlushWriteLine ==
    /\ flushing.pc = "writing"
    /\ flushing.pending # <<>>
    /\ data' = [data EXCEPT ![flushing.sst_id] =
                   @ \o WriteAll(memtable, <<Head(flushing.pending)>>)]
    /\ flushing' = [flushing EXCEPT !.pending = Tail(@)]
    /\ UNCHANGED <<memtable, memtable_limit, next_sstable_id, sstables,
                   compaction_trigger, panicked, writes, lastOp, latest, recovered,
                   assigned, dropped>>

\* sst_file.sync_data()
FlushSync ==
    /\ flushing.pc = "writing"
    /\ flushing.pending = <<>>
    /\ flushing' = [flushing EXCEPT !.pc = "synced"]
    /\ UNCHANGED <<memtable, memtable_limit, next_sstable_id, sstables,
                   compaction_trigger, data, panicked, writes, lastOp, latest,
                   recovered, assigned, dropped>>

\* self.memtable.clear()
FlushClear ==
    /\ flushing.pc = "synced"
    /\ memtable' = EmptyMap
    /\ flushing' = [flushing EXCEPT !.pc = "cleared"]
    /\ UNCHANGED <<memtable_limit, next_sstable_id, sstables, compaction_trigger,
                   data, panicked, writes, lastOp, latest, recovered, assigned,
                   dropped>>

\* self.sstable_mgr.add_sstable(sst_id), and the return of flush_memtable.
FlushRegister ==
    /\ flushing.pc = "cleared"
    /\ LET e == add_sstable(Engine, flushing.sst_id)
       IN  /\ Install(e)
           /\ latest' = MarkFlushed(latest, e)
           /\ assigned' = assigned \o Registered(e)
    /\ flushing' = Idle
    /\ UNCHANGED <<panicked, writes, lastOp, recovered, dropped>>

NextSteps ==
    \/ StepNew
    \/ \E l \in {TestMemtableLimit, SmallLimit} :
           StepConfigure(l, TestCompactionTrigger)
    \/ \E k \in Keys : \E v \in Values : StepPut(k, v)
    \/ \E k \in Keys : StepDelete(k)
    \/ StepFlush
    \/ FlushWriteLine
    \/ FlushSync
    \/ FlushClear
    \/ FlushRegister
    \/ StepCompact
    \/ StepForceCompact

SpecSteps == Init /\ [][NextSteps]_vars

\* The file a flush in progress has written lines to and not yet synced.
Unsynced(id) ==
    /\ flushing.pc = "writing"
    /\ id = flushing.sst_id
    /\ Len(flushing.pending) < Cardinality(DOMAIN memtable)

\* ------------------------------------------------ callers passing any string
\* put and delete take any &str: keys and values holding the delimiter, a
\* newline or the tombstone marker are passed like any other.
RawKeys == {<<"a">>, <<"a", Delimiter, "b">>}
RawValues ==
    {<<"x">>, <<"x", Delimiter, "y">>, <<"x", Newline, "y">>, <<TOMBSTONE_MARKER>>}

NextRaw ==
    \/ New
    \/ \E l \in {TestMemtableLimit, SmallLimit} : Configure(l, TestCompactionTrigger)
    \/ \E k \in RawKeys : \E v \in RawValues : Put(k, v)
    \/ \E k \in RawKeys : Delete(k)
    \/ Flush
    \/ Compact
    \/ ForceCompact

SpecRaw == Init /\ [][NextRaw]_vars

\* A string free of the delimiter and of newlines.
FreeOfReserved(str) == \A i \in 1..Len(str) : str[i] \notin {Delimiter, Newline}

\* ----------------------------------------------------------------- claims
\* What a segment file holds, read independently of the lookup: its records.
Records(content) ==
    LET ls == lines(content)
    IN  [i \in 1..Len(ls) |-> <<read_kv_line(ls[i]).k, read_kv_line(ls[i]).v>>]

HoldsRecord(id, k) == \E i \in 1..Len(Records(data[id])) : Records(data[id])[i][1] = k
HoldsTombstone(id, k) ==
    \E i \in 1..Len(Records(data[id])) :
        Records(data[id])[i] = <<k, <<TOMBSTONE_MARKER>>>>
LiveValues(id, k) ==
    {Records(data[id])[i][2] : i \in {j \in 1..Len(Records(data[id])) :
        /\ Records(data[id])[j][1] = k
        /\ Records(data[id])[j][2] # <<TOMBSTONE_MARKER>>}}
\* Position i of the catalog is the newest one whose segment has a record for k.
NewestWith(i, k) ==
    /\ HoldsRecord(sstables[i], k)
    /\ \A j \in (i + 1)..Len(sstables) : ~HoldsRecord(sstables[j], k)

\* C1: last write wins: once put(k, v) is the last write to k of this engine
\* instance, get(k) returns v, whatever flushes happened before or after it and
\* in whatever state (including a reopened one) the instance started.
C1_LastWriteWins ==
    \A k \in Keys :
        (~panicked /\ latest[k].op = "put") => get(k).value = Some(latest[k].v)

\* C2: after delete(k), with no later put(k, _) and no flush, get(k) returns
\* None and consults no segment, also when segments hold a live value for k.
C2_MemtableTombstoneShadows ==
    \A k \in Keys :
        (~panicked /\ latest[k].op = "delete" /\ ~latest[k].flushed)
            => (get(k).value = None /\ get(k).consulted = <<>>)

C2_Witness ==
    \E k \in Keys :
        /\ ~panicked /\ latest[k].op = "delete" /\ ~latest[k].flushed
        /\ \E i \in 1..Len(sstables) : LiveValues(sstables[i], k) # {}

\* C3: with k absent from the memtable, when the newest segment with a record
\* for k holds a tombstone for it, get(k) returns None; in particular get(k)
\* returns None once a delete(k) that was the last write to k has been flushed.
C3_SegmentTombstoneShadows ==
    \A k \in Keys :
        /\ (/\ ~panicked /\ k \notin DOMAIN memtable
            /\ \E i \in 1..Len(sstables) :
                   NewestWith(i, k) /\ HoldsTombstone(sstables[i], k))
               => get(k).value = None
        /\ (~panicked /\ latest[k].op = "delete" /\ latest[k].flushed)
               => get(k).value = None

\* C4: with k absent from the memtable and two cataloged segments holding live
\* records for k with different values, the later of them being the newest
\* segment with a record for k, get(k) returns a value of that later segment,
\* never one only the older segment holds.
C4_NewerSegmentWins ==
    \A k \in Keys :
        (~panicked /\ k \notin DOMAIN memtable) =>
            \A i, j \in 1..Len(sstables) :
                (/\ i < j
                 /\ NewestWith(j, k)
                 /\ LiveValues(sstables[i], k) # {}
                 /\ LiveValues(sstables[j], k) # {}
                 /\ LiveValues(sstables[i], k) # LiveValues(sstables[j], k))
                    => /\ get(k).value # None
                       /\ get(k).value[1] \in LiveValues(sstables[j], k)

\* C5: an engine constructed after a drop that followed a flush (nothing left
\* in the memtable) has an empty memtable and answers get(k), for every key k,
\* as the dropped engine did.
C5_RecoveryRoundTrip ==
    (lastOp = "new" /\ dropped.clean) =>
        /\ DOMAIN memtable = {}
        /\ \A k \in Keys : get(k).value = dropped.answers[k]

\* C6: within one engine instance the ids assigned to flushed segments are
\* strictly increasing, and the catalog is the recovered catalog followed by
\* those ids in the order they were assigned.
C6_IdsIncreaseInCreationOrder ==
    /\ \A i \in 1..(Len(assigned) - 1) : assigned[i] < assigned[i + 1]
    /\ sstables = recovered \o assigned

C6_Witness == Len(assigned) >= 2 /\ ~panicked

\* C7: a flush of an empty memtable changes neither the directory, nor the id
\* counter, nor the catalog, nor the memtable.
C7_EmptyFlushIsNoOp ==
    [][(lastOp' = "flush" /\ DOMAIN memtable = {})
          => UNCHANGED <<data, next_sstable_id, sstables, memtable>>]_vars

C7_Witness ==
    lastOp = "flush" /\ next_sstable_id = 0 /\ DOMAIN data = {} /\ sstables = <<>>

\* C8: a flush that registers a segment and thereby brings the catalog to
\* compaction_trigger segments compacts the two oldest before it returns, so
\* it returns with one segment fewer than the trigger.
C8_FlushTriggersCompaction ==
    [][(/\ lastOp' \in {"put", "flush"}
        /\ next_sstable_id' # next_sstable_id
        /\ Len(sstables) + 1 = compaction_trigger)
          => (~panicked' /\ Len(sstables') = compaction_trigger - 1)]_vars

\* The records compaction is to leave of an older segment A and a newer B: for
\* each key the record of B, else that of A, the live ones in ascending key order.
MergedLive(A, B) ==
    LET ra == Records(A)
        rb == Records(B)
        InB(k) == \E i \in 1..Len(rb) : rb[i][1] = k
        ValueOf(r, k) == r[CHOOSE i \in 1..Len(r) : r[i][1] = k][2]
        keys == {ra[i][1] : i \in 1..Len(ra)} \cup {rb[i][1] : i \in 1..Len(rb)}
        Newest(k) == IF InB(k) THEN ValueOf(rb, k) ELSE ValueOf(ra, k)
        ks == Ascending({k \in keys : Newest(k) # <<TOMBSTONE_MARKER>>})
    IN  [i \in 1..Len(ks) |-> <<ks[i], Newest(ks[i])>>]

\* C9: compact_sstables on a catalog of two or more segments returns with the
\* front segment holding exactly the keys whose newest record among the two
\* oldest segments is live, each with that value, ascending, no tombstone.
C9_CompactionMergesNewestLive ==
    [][(lastOp' = "force_compact" /\ Len(sstables) >= 2)
          => /\ ~panicked'
             /\ sstables' # <<>>
             /\ Records(data'[sstables'[1]])
                    = MergedLive(data[sstables[1]], data[sstables[2]])]_vars

\* C10: force_compact on a catalog of fewer than two segments returns normally
\* and changes neither the catalog, nor any file, nor the id counter, nor the
\* memtable.
C10_CompactBelowTwoIsNoOp ==
    [][(lastOp' = "force_compact" /\ Len(sstables) < 2)
          => (~panicked' /\ UNCHANGED <<sstables, data, next_sstable_id, memtable>>)]_vars

C10_Witness ==
    lastOp = "force_compact" /\ ~panicked /\ Len(sstables) = 1 /\ DOMAIN memtable # {}

\* C11: compact_sstables on a catalog of two or more segments completes, and
\* get(k) answers after it, for every key k, what it answered before it.
C11_CompactionPreservesReads ==
    [][(lastOp' = "force_compact" /\ Len(sstables) >= 2)
          => /\ ~panicked'
             /\ \A k \in Keys : (get(k).value)' = get(k).value]_vars

\* C12: compact_sstables on a catalog of two or more segments leaves a catalog
\* one entry shorter whose front is the second-oldest id, with every younger
\* entry and its file unchanged, and removes the oldest segment's file.
C12_CompactionTouchesOldestTwo ==
    [][(lastOp' = "force_compact" /\ Len(sstables) >= 2)
          => /\ ~panicked'
             /\ sstables' = Tail(sstables)
             /\ \A i \in 3..Len(sstables) :
                    sstables[i] \notin {sstables[1], sstables[2]}
                        => data'[sstables[i]] = data[sstables[i]]
             /\ (sstables[1] # sstables[2] => sstables[1] \notin DOMAIN data')]_vars

\* C13: the id allocated for a new segment is the id of no file already in the
\* data directory and of no catalog entry, so that a flush leaves the content
\* of every file that existed before it unchanged.
C13_IdsNeverReused ==
    [][(next_sstable_id' # next_sstable_id /\ lastOp' # "new")
          => /\ next_sstable_id' \notin DOMAIN data
             /\ \A i \in 1..Len(sstables) : sstables[i] # next_sstable_id'
             /\ \A id \in DOMAIN data : data'[id] = data[id]]_vars

\* C14: after every completed operation the catalog holds exactly the ids of
\* the segment files of the data directory, each once, strictly ascending.
C14_CatalogMatchesDirectory ==
    /\ {sstables[i] : i \in 1..Len(sstables)} = DOMAIN data
    /\ \A i \in 1..(Len(sstables) - 1) : sstables[i] < sstables[i + 1]

\* C15: every segment file of the data directory holds its keys in strictly
\* ascending order, each key at most once.
C15_SegmentsSortedUnique ==
    \A id \in DOMAIN data :
        \A i \in 1..(Len(Records(data[id])) - 1) :
            StrLess(Records(data[id])[i][1], Records(data[id])[i + 1][1])

\* C18: after any put returns, the memtable holds fewer than memtable_limit
\* entries, whatever puts and deletes came before it.
C18_PutKeepsBufferBelowLimit ==
    (lastOp = "put" /\ ~panicked) => Cardinality(DOMAIN memtable) < memtable_limit

\* C20: get(k) answers immediately after flush_memtable, for every key k, what
\* it answered immediately before it.
C20_FlushInvisibleToReads ==
    [][lastOp' = "flush" => \A k \in Keys : (get(k).value)' = get(k).value]_vars

\* C16: no state inside flush_memtable has the memtable already cleared while
\* the id of the segment being flushed is not yet registered in the catalog.
C16_ClearAfterRegister ==
    (flushing.pc # "idle" /\ DOMAIN memtable = {})
        => \E i \in 1..Len(assigned) : assigned[i] = flushing.sst_id

\* C17: no catalog entry names a file that a flush has opened and not yet
\* synced (unsynced, or written only in part).
C17_CatalogFilesAreSynced ==
    \A i \in 1..Len(sstables) : ~Unsynced(sstables[i])

\* C19: a key holding ':' or a newline, and a value holding ':' or a newline
\* or equal to the tombstone marker, is never stored in the memtable (put and
\* delete reject it).
C19_ReservedNeverStored ==
    \A k \in DOMAIN memtable :
        /\ FreeOfReserved(k)
        /\ memtable[k] # None =>
               (FreeOfReserved(memtable[k][1]) /\ memtable[k][1] # <<TOMBSTONE_MARKER>>)

====
